---- MODULE Spec2Model ----
(***************************************************************************)
(* Model of libcamera's geometry value types (Point, Size, SizeRange,      *)
(* Rectangle) from src/libcamera/geometry.cpp.                             *)
(*                                                                         *)
(* The types are pure values, so every operation is an operator and the    *)
(* state machine is a receiver object with its arguments, on which the     *)
(* operations are invoked.                                                  *)
(*                                                                         *)
(* Machine integers keep their width.  TLC's own integers are 32 bits, so  *)
(* the machine word is modelled at WordBits bits: `unsigned int' is        *)
(* 0 .. 2^WordBits - 1, `int' is two's complement on WordBits bits, and    *)
(* uint64_t / int64_t are twice as wide as in the build.  The property     *)
(* that the wide type holds any product of two words is kept.              *)
(***************************************************************************)
EXTENDS Integers, Sequences, FiniteSets, TLC

VARIABLES op, sz, arg, third, pt, rect, bnd, num, den,
          rng, other, out

vars == <<op, sz, arg, third, pt, rect, bnd, num, den,
          rng, other, out>>

(***************************************************************************)
(* Machine arithmetic                                                      *)
(***************************************************************************)
WordBits == 3

UintMod == 2 ^ WordBits
UINT_MAX == UintMod - 1
INT_MAX == (UintMod \div 2) - 1
INT_MIN == -(UintMod \div 2)
WideMod == UintMod * UintMod

Uint == 0 .. UINT_MAX
Int32 == INT_MIN .. INT_MAX

\* Conversion to unsigned int: reduction modulo 2^WordBits.
ToUint(v) == v % UintMod

\* Conversion to int of a value out of range: modular (two's complement).
ToInt(v) == LET u == v % UintMod IN IF u > INT_MAX THEN u - UintMod ELSE u

\* Conversion to uint64_t and to int64_t.
ToU64(v) == v % WideMod

ToI64(v) == LET u == v % WideMod IN IF u >= WideMod \div 2 THEN u - WideMod ELSE u

\* C++ integer division truncates toward zero (d > 0 here).
TruncDiv(n, d) == IF n >= 0 THEN n \div d ELSE -((-n) \div d)

Max(x, y) == IF x >= y THEN x ELSE y

Min(x, y) == IF x <= y THEN x ELSE y

InInt(v) == INT_MIN <= v /\ v <= INT_MAX

(***************************************************************************)
(* The value types                                                         *)
(***************************************************************************)
Point == [x : Int32, y : Int32]

Size == [width : Uint, height : Uint]

Rectangle == [x : Int32, y : Int32, width : Uint, height : Uint]

SizeRange == [min : Size, max : Size, hStep : Uint, vStep : Uint]

MkPoint(x, y) == [x |-> x, y |-> y]

MkSize(w, h) == [width |-> w, height |-> h]

MkRect(x, y, w, h) == [x |-> x, y |-> y, width |-> w, height |-> h]

MkRange(mn, mx, hs, vs) == [min |-> mn, max |-> mx, hStep |-> hs, vStep |-> vs]

NoValue == "none"

(***************************************************************************)
(* Text: a string is the sequence of its characters.                       *)
(***************************************************************************)
DigitChars == <<"0", "1", "2", "3", "4", "5", "6", "7", "8", "9">>

RECURSIVE Decimal(_)
\* An unsigned number as operator<< and std::to_string print it.
Decimal(n) ==
    IF n < 10 THEN <<DigitChars[n + 1]>>
    ELSE Decimal(n \div 10) \o <<DigitChars[(n % 10) + 1]>>

\* An int as operator<< prints it.
SignedDecimal(n) == IF n < 0 THEN <<"-">> \o Decimal(-n) ELSE Decimal(n)

(***************************************************************************)
(* Point                                                                    *)
(***************************************************************************)
\* Point::toString()
PointToString(self) ==
    <<"(">> \o SignedDecimal(self.x) \o <<",">> \o SignedDecimal(self.y) \o <<")">>

(***************************************************************************)
(* Size                                                                     *)
(***************************************************************************)
\* Size::toString()
SizeToString(self) == Decimal(self.width) \o <<"x">> \o Decimal(self.height)

\* A product taken at the width of unsigned int: the overflow the widening avoids.
NarrowProduct(x, y) == ToUint(x * y)

\* uint64_t product of two unsigned ints, each widened before multiplying.
WideProduct(x, y) == ToU64(ToU64(x) * ToU64(y))

\* operator==(const Size &, const Size &)
SizeEq(lhs, rhs) == lhs.width = rhs.width /\ lhs.height = rhs.height

\* A comparator whose first test accepts equal dimensions (<= for <).
SizeLessWeakDominance(lhs, rhs) ==
    IF lhs.width <= rhs.width /\ lhs.height <= rhs.height THEN TRUE
    ELSE IF lhs.width >= rhs.width /\ lhs.height >= rhs.height THEN FALSE
    ELSE LET larea == WideProduct(lhs.width, lhs.height)
             rarea == WideProduct(rhs.width, rhs.height)
         IN  IF larea < rarea THEN TRUE
             ELSE IF larea > rarea THEN FALSE
             ELSE lhs.width < rhs.width

\* operator<(const Size &, const Size &)
SizeLess(lhs, rhs) ==
    IF lhs.width < rhs.width /\ lhs.height < rhs.height THEN TRUE
    ELSE IF lhs.width >= rhs.width /\ lhs.height >= rhs.height THEN FALSE
    ELSE LET larea == WideProduct(lhs.width, lhs.height)
             rarea == WideProduct(rhs.width, rhs.height)
         IN  IF larea < rarea THEN TRUE
             ELSE IF larea > rarea THEN FALSE
             ELSE lhs.width < rhs.width

\* Size::boundedToAspectRatio(const Size &ratio), past its ASSERT
boundedToAspectRatio(self, ratio) ==
    LET ratio1 == WideProduct(self.width, ratio.height)
        ratio2 == WideProduct(ratio.width, self.height)
    IN  IF ratio1 > ratio2
        THEN MkSize(ToUint(ratio2 \div ratio.height), self.height)
        ELSE MkSize(self.width, ToUint(ratio1 \div ratio.width))

\* Size::expandedToAspectRatio(const Size &ratio), past its ASSERT
expandedToAspectRatio(self, ratio) ==
    LET ratio1 == WideProduct(self.width, ratio.height)
        ratio2 == WideProduct(ratio.width, self.height)
    IN  IF ratio1 < ratio2
        THEN MkSize(ToUint(ratio2 \div ratio.height), self.height)
        ELSE MkSize(self.width, ToUint(ratio1 \div ratio.width))

\* Size::centeredTo(const Point &center): int - unsigned is an unsigned
\* subtraction, converted back to int.
centeredTo(self, center) ==
    LET x == ToInt(ToUint(ToUint(center.x) - self.width \div 2))
        y == ToInt(ToUint(ToUint(center.y) - self.height \div 2))
    IN  MkRect(x, y, self.width, self.height)

(***************************************************************************)
(* Undefined behaviour.  Signed overflow and std::clamp with hi < lo are   *)
(* undefined, so their outcome is a choice of the build:                   *)
(*   overflow "wrap": the signed operation wraps (two's complement);       *)
(*   overflow "fold": the compiler, assuming no overflow, compares the     *)
(*                    operands of a difference instead of its sign;        *)
(*   clamp "minmax":  std::min(std::max(v, lo), hi)       (libstdc++);     *)
(*   clamp "ternary": v < lo ? lo : hi < v ? hi : v       (libc++).        *)
(* A build that traps on overflow or asserts returns no value at all.      *)
(***************************************************************************)
Builds == [overflow : {"wrap", "fold"}, clamp : {"minmax", "ternary"}]

\* int + int whose sum is returned as it is: on overflow every build that
\* returns a value returns the wrapped sum (nothing is compared that the
\* compiler could fold).
SignedAdd(x, y, build) == ToInt(x + y)

\* unsigned int n = std::max(bottomRight - topLeft, 0)
Extent(bottomRight, topLeft, build) ==
    LET diff == bottomRight - topLeft
    IN  IF InInt(diff) THEN ToUint(Max(diff, 0))
        ELSE IF build.overflow = "wrap" THEN ToUint(Max(ToInt(diff), 0))
        ELSE IF bottomRight < topLeft THEN 0 ELSE ToUint(diff)

\* std::clamp<int>(v, lo, hi)
clamp(v, lo, hi, build) ==
    IF build.clamp = "minmax" THEN Min(Max(v, lo), hi)
    ELSE IF v < lo THEN lo ELSE IF hi < v THEN hi ELSE v

(***************************************************************************)
(* Rectangle                                                                *)
(***************************************************************************)
\* Rectangle::size()
RectSize(self) == MkSize(self.width, self.height)

\* Rectangle::topLeft()
topLeft(self) == MkPoint(self.x, self.y)

\* A rendering assembled from the renderings of the top-left Point and the Size.
toStringOfParts(self) == PointToString(topLeft(self)) \o <<"/">> \o SizeToString(RectSize(self))

\* Rectangle::toString()
toString(self) ==
    <<"(">> \o SignedDecimal(self.x) \o <<"x">> \o SignedDecimal(self.y) \o <<")", "/">>
        \o Decimal(self.width) \o <<"x">> \o Decimal(self.height)

\* Rectangle::center()
center(self, build) ==
    MkPoint(SignedAdd(self.x, ToInt(self.width \div 2), build),
            SignedAdd(self.y, ToInt(self.height \div 2), build))

\* The right (bottom) edge, x + width, as std::min<int> receives it: an
\* unsigned sum converted to int.
Edge(pos, extent) == ToInt(ToUint(ToUint(pos) + extent))

\* Rectangle::boundedTo(const Rectangle &bound)
boundedTo(self, bound, build) ==
    LET topLeftX == Max(self.x, bound.x)
        topLeftY == Max(self.y, bound.y)
        bottomRightX == Min(Edge(self.x, self.width), Edge(bound.x, bound.width))
        bottomRightY == Min(Edge(self.y, self.height), Edge(bound.y, bound.height))
        newWidth == Extent(bottomRightX, topLeftX, build)
        newHeight == Extent(bottomRightY, topLeftY, build)
    IN  MkRect(topLeftX, topLeftY, newWidth, newHeight)

\* Rectangle::enclosedIn(const Rectangle &boundary)
enclosedIn(self, boundary, build) ==
    LET result == boundedTo(self, MkRect(self.x, self.y, boundary.width, boundary.height), build)
        x == clamp(result.x, boundary.x,
                   ToInt(ToUint(ToUint(boundary.x) + boundary.width - result.width)), build)
        y == clamp(result.y, boundary.y,
                   ToInt(ToUint(ToUint(boundary.y) + boundary.height - result.height)), build)
    IN  MkRect(x, y, result.width, result.height)

\* A coordinate scaled with the product taken at the width of int.
ScaleCoordNarrow(pos, n, d) == ToInt(TruncDiv(ToInt(pos * n), d))

\* static_cast<int64_t>(pos) * n / d, stored in an int
ScaleCoord(pos, n, d) == ToInt(TruncDiv(ToI64(ToI64(pos) * ToI64(n)), d))

\* An extent scaled with the product taken at the width of unsigned int.
ScaleExtentNarrow(ext, n, d) == ToUint(ToUint(ext * n) \div d)

\* static_cast<uint64_t>(ext) * n / d, stored in an unsigned int
ScaleExtent(ext, n, d) == ToUint(ToU64(ToU64(ext) * ToU64(n)) \div d)

\* Rectangle::scaleBy(const Size &numerator, const Size &denominator): the
\* fields are assigned in place, one after the other.
scaleBy(self, numerator, denominator) ==
    LET s1 == [self EXCEPT !.x = ScaleCoord(self.x, numerator.width, denominator.width)]
        s2 == [s1 EXCEPT !.y = ScaleCoord(s1.y, numerator.height, denominator.height)]
        s3 == [s2 EXCEPT !.width = ScaleExtent(s2.width, numerator.width, denominator.width)]
        s4 == [s3 EXCEPT !.height = ScaleExtent(s3.height, numerator.height, denominator.height)]
    IN  s4

\* Rectangle::scaledBy(const Size &numerator, const Size &denominator)
scaledBy(self, numerator, denominator) ==
    LET scaledX == ScaleCoord(self.x, numerator.width, denominator.width)
        scaledY == ScaleCoord(self.y, numerator.height, denominator.height)
        scaledWidth == ScaleExtent(self.width, numerator.width, denominator.width)
        scaledHeight == ScaleExtent(self.height, numerator.height, denominator.height)
    IN  MkRect(scaledX, scaledY, scaledWidth, scaledHeight)

(***************************************************************************)
(* SizeRange                                                                *)
(***************************************************************************)
\* A containment test whose upper height bound is exclusive, as the class
\* comment writes it (height < max.height).
containsBelowMaxHeight(self, size) ==
    IF \/ size.width < self.min.width \/ size.width > self.max.width
       \/ size.height < self.min.height \/ size.height >= self.max.height
       \/ (self.hStep # 0 /\ ToUint(size.width - self.min.width) % self.hStep # 0)
       \/ (self.vStep # 0 /\ ToUint(size.height - self.min.height) % self.vStep # 0)
    THEN FALSE
    ELSE TRUE

\* SizeRange::contains(const Size &size)
contains(self, size) ==
    IF \/ size.width < self.min.width \/ size.width > self.max.width
       \/ size.height < self.min.height \/ size.height > self.max.height
       \/ (self.hStep # 0 /\ ToUint(size.width - self.min.width) % self.hStep # 0)
       \/ (self.vStep # 0 /\ ToUint(size.height - self.min.height) % self.vStep # 0)
    THEN FALSE
    ELSE TRUE

\* An equality that also compares the steps.
RangeEqWithSteps(lhs, rhs) ==
    /\ SizeEq(lhs.min, rhs.min) /\ SizeEq(lhs.max, rhs.max)
    /\ lhs.hStep = rhs.hStep /\ lhs.vStep = rhs.vStep

\* operator==(const SizeRange &, const SizeRange &)
RangeEq(lhs, rhs) == SizeEq(lhs.min, rhs.min) /\ SizeEq(lhs.max, rhs.max)

(***************************************************************************)
(* Default-constructed values of the objects a specification does not use. *)
(***************************************************************************)
ZeroPoint == MkPoint(0, 0)

ZeroSize == MkSize(0, 0)

ZeroRect == MkRect(0, 0, 0, 0)

ZeroRange == MkRange(ZeroSize, ZeroSize, 0, 0)

(***************************************************************************)
(* Specification of the Size operations: a Size and a Size argument.       *)
(***************************************************************************)
InitSize ==
    /\ op = NoValue /\ out = NoValue
    /\ third = ZeroSize
    /\ sz \in Size /\ arg \in Size
    /\ pt = ZeroPoint /\ rect = ZeroRect /\ bnd = ZeroRect
    /\ num = ZeroSize /\ den = ZeroSize
    /\ rng = ZeroRange /\ other = ZeroRange

\* size < arg
Less ==
    /\ op = NoValue
    /\ op' = "less"
    /\ out' = SizeLess(sz, arg)
    /\ UNCHANGED <<sz, arg, third, pt, rect, bnd, num, den, rng, other>>

\* ASSERT(ratio.width && ratio.height)
RatioAsserted(ratio) == ratio.width # 0 /\ ratio.height # 0

\* size.boundedToAspectRatio(arg)
BoundedToAspectRatio ==
    /\ op = NoValue
    /\ RatioAsserted(arg)
    /\ op' = "boundedToAspectRatio"
    /\ out' = boundedToAspectRatio(sz, arg)
    /\ UNCHANGED <<sz, arg, third, pt, rect, bnd, num, den, rng, other>>

\* size.expandedToAspectRatio(arg)
ExpandedToAspectRatio ==
    /\ op = NoValue
    /\ RatioAsserted(arg)
    /\ op' = "expandedToAspectRatio"
    /\ out' = expandedToAspectRatio(sz, arg)
    /\ UNCHANGED <<sz, arg, third, pt, rect, bnd, num, den, rng, other>>

NextSize == Less \/ BoundedToAspectRatio \/ ExpandedToAspectRatio

SpecSize == InitSize /\ [][NextSize]_vars

(***************************************************************************)
(* C1: size < arg is decided by the chain: both dimensions strictly        *)
(* smaller gives true; otherwise both dimensions greater or equal gives    *)
(* false; otherwise the smaller exact area (no wrap-around) decides;       *)
(* otherwise, with equal areas, the smaller width decides.                 *)
(***************************************************************************)
Area(s) == s.width * s.height

LessChain(a, b) ==
    IF a.width < b.width /\ a.height < b.height THEN TRUE
    ELSE IF a.width >= b.width /\ a.height >= b.height THEN FALSE
    ELSE IF Area(a) < Area(b) THEN TRUE
    ELSE IF Area(a) > Area(b) THEN FALSE
    ELSE a.width < b.width

C1_LessChain == op = "less" => out = LessChain(sz, arg)

\* Equal areas, neither size dominates, and the narrower one compares smaller.
C1_Witness ==
    /\ op = "less" /\ out = TRUE
    /\ Area(sz) = Area(arg) /\ sz.width < arg.width /\ sz.height > arg.height

(***************************************************************************)
(* C11 as stated: there are Sizes a and b for which a < b differs from the *)
(* single rule "area(a) < area(b), or the areas are equal and              *)
(* a.width < b.width".                                                      *)
(***************************************************************************)
AreaThenWidth(a, b) ==
    Area(a) < Area(b) \/ (Area(a) = Area(b) /\ a.width < b.width)

\* The pairs on which the comparator and the single rule disagree.
DifferingPairs == { p \in Size \X Size : SizeLess(p[1], p[2]) # AreaThenWidth(p[1], p[2]) }

\* Stated of the states in which the comparator has run.
C11_SomePairDiffers == op = "less" => DifferingPairs # {}

(***************************************************************************)
(* C11 as amended: for all Sizes a and b, a < b equals the single rule     *)
(* "area(a) < area(b), or the areas are equal and a.width < b.width": the  *)
(* dominance pre-check never changes an outcome.                            *)
(***************************************************************************)
C11_SameAsAreaThenWidth == op = "less" => out = AreaThenWidth(sz, arg)

\* The pre-check decided (both dimensions strictly smaller, or both greater
\* or equal with one of them equal), and the single rule gives the same.
C11_Witness ==
    /\ op = "less"
    /\ \/ (sz.width < arg.width /\ sz.height < arg.height /\ out = TRUE)
       \/ (sz.width = arg.width /\ sz.height > arg.height /\ arg.width > 0 /\ out = FALSE)
    /\ out = AreaThenWidth(sz, arg)

(***************************************************************************)
(* C6: for a ratio with both components non-zero, boundedToAspectRatio     *)
(* returns a size contained within the receiver and expandedToAspectRatio  *)
(* a size that contains it, each changing at most one dimension; the cross *)
(* products that select the branch are compared exactly.                   *)
(***************************************************************************)
\* The branch the exact cross products select: the width changes, or the height.
BranchOf(s, ratio, r, widthBranch) ==
    IF widthBranch THEN r.height = s.height ELSE r.width = s.width

C6_BoundedWithin ==
    op = "boundedToAspectRatio" =>
        /\ out.width <= sz.width /\ out.height <= sz.height
        /\ BranchOf(sz, arg, out, sz.width * arg.height > arg.width * sz.height)

C6_ExpandedContains ==
    op = "expandedToAspectRatio" =>
        /\ out.width >= sz.width /\ out.height >= sz.height
        /\ BranchOf(sz, arg, out, sz.width * arg.height < arg.width * sz.height)

C6_AspectRatio == C6_BoundedWithin /\ C6_ExpandedContains

\* What does hold of expandedToAspectRatio: the result contains the
\* receiver whenever the expanded dimension fits an unsigned int.
ExpandedContainsWhenRepresentable ==
    (/\ op = "expandedToAspectRatio"
     /\ (arg.width * sz.height) \div arg.height <= UINT_MAX
     /\ (sz.width * arg.height) \div arg.width <= UINT_MAX) =>
        out.width >= sz.width /\ out.height >= sz.height

(***************************************************************************)
(* Specification of ranking with operator<: three Sizes, compared with     *)
(* each other and with themselves, as a sort or a best-fit selection does. *)
(***************************************************************************)
InitOrder ==
    /\ op = NoValue /\ out = NoValue
    /\ sz \in Size /\ arg \in Size /\ third \in Size
    /\ pt = ZeroPoint /\ rect = ZeroRect /\ bnd = ZeroRect
    /\ num = ZeroSize /\ den = ZeroSize
    /\ rng = ZeroRange /\ other = ZeroRange

\* The three Sizes, in the order they are held.
Ranked == <<sz, arg, third>>

\* out[i][j] = (Ranked[i] < Ranked[j]) for every ordered pair
Rank ==
    /\ op = NoValue
    /\ op' = "rank"
    /\ out' = [i \in 1 .. 3 |-> [j \in 1 .. 3 |-> SizeLess(Ranked[i], Ranked[j])]]
    /\ UNCHANGED <<sz, arg, third, pt, rect, bnd, num, den, rng, other>>

NextOrder == Rank

SpecOrder == InitOrder /\ [][NextOrder]_vars

(***************************************************************************)
(* C12: operator< on Sizes is a strict ordering: irreflexive (not a < a),  *)
(* asymmetric (a < b implies not b < a) and transitive (a < b and b < c    *)
(* imply a < c), zero dimensions and equal dimensions included.            *)
(***************************************************************************)
C12_Irreflexive == op = "rank" => \A i \in 1 .. 3 : ~out[i][i]

C12_Asymmetric == op = "rank" => \A i \in 1 .. 3 : \A j \in 1 .. 3 : out[i][j] => ~out[j][i]

C12_Transitive ==
    op = "rank" =>
        \A i \in 1 .. 3 : \A j \in 1 .. 3 : \A k \in 1 .. 3 :
            (out[i][j] /\ out[j][k]) => out[i][k]

C12_StrictOrder == C12_Irreflexive /\ C12_Asymmetric /\ C12_Transitive

\* A chain sz < arg < third with sz < third, through a Size of zero width
\* and two Sizes of equal width and different heights.
C12_Witness ==
    /\ op = "rank"
    /\ out[1][2] /\ out[2][3] /\ out[1][3]
    /\ sz.width = 0 /\ sz.height > arg.height
    /\ arg.width = third.width /\ arg.height < third.height

(***************************************************************************)
(* Specification of Size::centeredTo followed by Rectangle::center.        *)
(***************************************************************************)
InitCenter ==
    /\ op = NoValue /\ out = NoValue
    /\ third = ZeroSize
    /\ sz \in Size /\ pt \in Point
    /\ arg = ZeroSize /\ rect = ZeroRect /\ bnd = ZeroRect
    /\ num = ZeroSize /\ den = ZeroSize
    /\ rng = ZeroRange /\ other = ZeroRange

\* rect = size.centeredTo(point)
CenteredTo ==
    /\ op = NoValue
    /\ op' = "centeredTo"
    /\ rect' = centeredTo(sz, pt)
    /\ UNCHANGED <<sz, arg, third, pt, bnd, num, den, rng, other, out>>

\* rect.center()
Center ==
    /\ op = "centeredTo"
    /\ op' = "center"
    /\ \E build \in Builds : out' = center(rect, build)
    /\ UNCHANGED <<sz, arg, third, pt, rect, bnd, num, den, rng, other>>

NextCenter == CenteredTo \/ Center

SpecCenter == InitCenter /\ [][NextCenter]_vars

(***************************************************************************)
(* C8: size.centeredTo(point) is a Rectangle of that size whose top-left   *)
(* is point - size/2 (truncating division) and whose center() is point.    *)
(***************************************************************************)
C8_SizeKept == op \in {"centeredTo", "center"} => rect.width = sz.width /\ rect.height = sz.height

C8_CenterIsPoint == op = "center" => out = pt

C8_TopLeft ==
    op \in {"centeredTo", "center"} =>
        /\ rect.x = pt.x - sz.width \div 2
        /\ rect.y = pt.y - sz.height \div 2

C8_CenteredTo == C8_SizeKept /\ C8_TopLeft /\ C8_CenterIsPoint

\* What does hold of centeredTo: the top-left is point - size/2 whenever
\* that position is an int, and center() then adds without overflow.
TopLeftWhenRepresentable ==
    (/\ op \in {"centeredTo", "center"}
     /\ InInt(pt.x - sz.width \div 2) /\ InInt(pt.y - sz.height \div 2)) =>
        /\ rect.x = pt.x - sz.width \div 2 /\ rect.y = pt.y - sz.height \div 2
        /\ InInt(rect.x + rect.width \div 2) /\ InInt(rect.y + rect.height \div 2)

(***************************************************************************)
(* Specification of the operations on a Rectangle and a second Rectangle.  *)
(* The x axis takes every machine value; the y axis, which the code treats *)
(* the same way, a band of YSpan around the origin.                        *)
(***************************************************************************)
YSpan == 1

YPos == { v \in Int32 : -YSpan <= v /\ v <= YSpan }

YExtent == { v \in Uint : v <= YSpan }

RectInputs == [x : Int32, y : YPos, width : Uint, height : YExtent]

InitRect ==
    /\ op = NoValue /\ out = NoValue
    /\ third = ZeroSize
    /\ rect \in RectInputs /\ bnd \in RectInputs
    /\ sz = ZeroSize /\ arg = ZeroSize /\ pt = ZeroPoint
    /\ num = ZeroSize /\ den = ZeroSize
    /\ rng = ZeroRange /\ other = ZeroRange

\* rect.boundedTo(bnd)
BoundedTo ==
    /\ op = NoValue
    /\ op' = "boundedTo"
    /\ \E build \in Builds : out' = boundedTo(rect, bnd, build)
    /\ UNCHANGED <<sz, arg, third, pt, rect, bnd, num, den, rng, other>>

\* rect.enclosedIn(bnd)
EnclosedIn ==
    /\ op = NoValue
    /\ op' = "enclosedIn"
    /\ \E build \in Builds : out' = enclosedIn(rect, bnd, build)
    /\ UNCHANGED <<sz, arg, third, pt, rect, bnd, num, den, rng, other>>

NextRect == BoundedTo \/ EnclosedIn

SpecRect == InitRect /\ [][NextRect]_vars

(***************************************************************************)
(* C2: boundedTo is the intersection taken axis by axis: the top-left is   *)
(* the maximum of the two top-lefts and each dimension is the overlap      *)
(* length max(min(right edges) - max(left edges), 0) of its own axis.      *)
(***************************************************************************)
Overlap(pos1, ext1, pos2, ext2) == Max(Min(pos1 + ext1, pos2 + ext2) - Max(pos1, pos2), 0)

C2_BoundedTo ==
    op = "boundedTo" =>
        /\ out.x = Max(rect.x, bnd.x)
        /\ out.y = Max(rect.y, bnd.y)
        /\ out.width = Overlap(rect.x, rect.width, bnd.x, bnd.width)
        /\ out.height = Overlap(rect.y, rect.height, bnd.y, bnd.height)

\* The coordinates of one axis, and their differences, are all ints.
AxisFits(S) == \A p \in S : \A q \in S : InInt(p) /\ InInt(p - q)

\* The edges of r and b are representable, and so are the distances between them.
Fits(r, b) ==
    /\ AxisFits({r.x, r.x + r.width, b.x, b.x + b.width})
    /\ AxisFits({r.y, r.y + r.height, b.y, b.y + b.height})

\* What does hold of boundedTo: it is the axis-wise intersection of
\* rectangles whose edges and distances are representable as int.
BoundedToWhenRepresentable == (op = "boundedTo" /\ Fits(rect, bnd)) => C2_BoundedTo

(***************************************************************************)
(* C3: rect.enclosedIn(bnd) lies fully within bnd.                         *)
(***************************************************************************)
Within(e, b) ==
    /\ b.x <= e.x /\ b.y <= e.y
    /\ e.x + e.width <= b.x + b.width
    /\ e.y + e.height <= b.y + b.height

C3_EnclosedWithin == op = "enclosedIn" => Within(out, bnd)

\* What does hold of enclosedIn: the result lies within a boundary with
\* negative x or y, when the edges and distances are representable as int.
EnclosedWithinWhenRepresentable == (op = "enclosedIn" /\ Fits(rect, bnd)) => Within(out, bnd)

(***************************************************************************)
(* C4: rect.enclosedIn(bnd) has width min(rect.width, bnd.width) and       *)
(* height min(rect.height, bnd.height).                                    *)
(***************************************************************************)
C4_EnclosedSize ==
    op = "enclosedIn" =>
        /\ out.width = Min(rect.width, bnd.width)
        /\ out.height = Min(rect.height, bnd.height)

\* What does hold of enclosedIn: the size is the minimum of the two sizes
\* when, besides, the receiver moved to the boundary's size is representable.
EnclosedSizeWhenRepresentable ==
    (/\ op = "enclosedIn" /\ Fits(rect, bnd)
     /\ Fits(MkRect(rect.x, rect.y, bnd.width, bnd.height), bnd)) =>
        /\ out.width = Min(rect.width, bnd.width)
        /\ out.height = Min(rect.height, bnd.height)

(***************************************************************************)
(* Specification of Rectangle scaling: a Rectangle, a numerator and a      *)
(* denominator.  A zero denominator component divides by zero, which       *)
(* returns nothing.                                                         *)
(***************************************************************************)
YFactor == { v \in Uint : v <= YSpan + 1 }

InitScale ==
    /\ op = NoValue /\ out = NoValue
    /\ third = ZeroSize
    /\ rect \in RectInputs
    /\ num \in [width : Uint, height : YFactor]
    /\ den \in [width : Uint, height : YFactor]
    /\ sz = ZeroSize /\ arg = ZeroSize /\ pt = ZeroPoint /\ bnd = ZeroRect
    /\ rng = ZeroRange /\ other = ZeroRange

NonZero(s) == s.width # 0 /\ s.height # 0

\* rect.scaledBy(num, den)
ScaledBy ==
    /\ op = NoValue
    /\ NonZero(den)
    /\ op' = "scaledBy"
    /\ out' = scaledBy(rect, num, den)
    /\ UNCHANGED <<sz, arg, third, pt, rect, bnd, num, den, rng, other>>

\* rect.scaleBy(num, den): rect is changed and a reference to it returned
ScaleBy ==
    /\ op = NoValue
    /\ NonZero(den)
    /\ op' = "scaleBy"
    /\ rect' = scaleBy(rect, num, den)
    /\ out' = rect'
    /\ UNCHANGED <<sz, arg, third, pt, bnd, num, den, rng, other>>

NextScale == ScaledBy \/ ScaleBy

SpecScale == InitScale /\ [][NextScale]_vars

(***************************************************************************)
(* C7: scaledBy and scaleBy produce x = trunc(x * numerator.width /        *)
(* denominator.width) and width = floor(width * numerator.width /          *)
(* denominator.width), y and height likewise with the heights, exactly     *)
(* whenever the quotient fits its field, whatever the size of the          *)
(* intermediate product; scaling by numerator = denominator changes        *)
(* nothing.                                                                 *)
(***************************************************************************)
ExactCoord(pos, n, d, got) ==
    LET q == TruncDiv(pos * n, d) IN InInt(q) => got = q

ExactExtent(ext, n, d, got) ==
    LET q == (ext * n) \div d IN q <= UINT_MAX => got = q

ExactScale(r, n, d, got) ==
    /\ ExactCoord(r.x, n.width, d.width, got.x)
    /\ ExactCoord(r.y, n.height, d.height, got.y)
    /\ ExactExtent(r.width, n.width, d.width, got.width)
    /\ ExactExtent(r.height, n.height, d.height, got.height)
    /\ (n = d => got = r)

C7_ScaleExact ==
    [][ /\ (op' = "scaledBy" => ExactScale(rect, num, den, out'))
        /\ (op' = "scaleBy" => ExactScale(rect, num, den, rect') /\ out' = rect') ]_vars

\* The products of both the position and the width overflow the word, the
\* quotients fit, and scaledBy returned them.
C7_Witness ==
    /\ op = "scaledBy"
    /\ rect.width * num.width > UINT_MAX
    /\ rect.x * num.width < INT_MIN
    /\ out.width = (rect.width * num.width) \div den.width
    /\ out.x = TruncDiv(rect.x * num.width, den.width)
    /\ out.x # 0 /\ out.width # 0

(***************************************************************************)
(* Specification of SizeRange::contains: a SizeRange and a Size.  Widths   *)
(* and the horizontal step take every machine value, heights and the       *)
(* vertical step a band above zero.                                         *)
(***************************************************************************)
InitRange ==
    /\ op = NoValue /\ out = NoValue
    /\ third = ZeroSize
    /\ rng \in [min : [width : Uint, height : YFactor], max : [width : Uint, height : YFactor],
                hStep : Uint, vStep : YFactor]
    /\ sz \in [width : Uint, height : YFactor]
    /\ arg = ZeroSize /\ pt = ZeroPoint /\ rect = ZeroRect /\ bnd = ZeroRect
    /\ num = ZeroSize /\ den = ZeroSize /\ other = ZeroRange

\* rng.contains(sz)
Contains ==
    /\ op = NoValue
    /\ op' = "contains"
    /\ out' = contains(rng, sz)
    /\ UNCHANGED <<sz, arg, third, pt, rect, bnd, num, den, rng, other>>

NextRange == Contains

SpecRange == InitRange /\ [][NextRange]_vars

(***************************************************************************)
(* C5: contains(size) is true exactly when both dimensions lie between min *)
(* and max, both bounds included, and size - min is a multiple of the step *)
(* on every axis whose step is not zero.                                    *)
(***************************************************************************)
OnStep(v, from, step) == step = 0 \/ \E k \in 0 .. UINT_MAX : v = from + k * step

MaxEqField == 1

EqField == { v \in Uint : v <= MaxEqField }

EqRanges == [min : [width : EqField, height : EqField], max : [width : EqField, height : EqField],
             hStep : EqField, vStep : EqField]

InitRangeEq ==
    /\ op = NoValue /\ out = NoValue
    /\ third = ZeroSize
    /\ rng \in EqRanges /\ other \in EqRanges
    /\ sz = ZeroSize /\ arg = ZeroSize /\ pt = ZeroPoint /\ rect = ZeroRect /\ bnd = ZeroRect
    /\ num = ZeroSize /\ den = ZeroSize

\* rng == other
Equals ==
    /\ op = NoValue
    /\ op' = "equals"
    /\ out' = RangeEq(rng, other)
    /\ UNCHANGED <<sz, arg, third, pt, rect, bnd, num, den, rng, other>>

NextRangeEq == Equals

SpecRangeEq == InitRangeEq /\ [][NextRangeEq]_vars

(***************************************************************************)
(* C9: two SizeRanges compare equal exactly when their min Sizes are equal *)
(* and their max Sizes are equal; the steps take no part.                   *)
(***************************************************************************)
C9_RangeEq == op = "equals" => out = (rng.min = other.min /\ rng.max = other.max)

\* Two ranges that differ only in their steps compare equal.
C9_Witness ==
    /\ op = "equals" /\ out = TRUE
    /\ rng.hStep # other.hStep /\ rng.vStep # other.vStep

(***************************************************************************)
(* Specification of the text renderings of a Rectangle, of its top-left    *)
(* Point and of its Size.                                                   *)
(***************************************************************************)
InitString ==
    /\ op = NoValue /\ out = NoValue
    /\ third = ZeroSize
    /\ rect \in Rectangle
    /\ sz = ZeroSize /\ arg = ZeroSize /\ pt = ZeroPoint /\ bnd = ZeroRect
    /\ num = ZeroSize /\ den = ZeroSize
    /\ rng = ZeroRange /\ other = ZeroRange

\* rect.toString()
RectToString ==
    /\ op = NoValue
    /\ op' = "toString"
    /\ out' = toString(rect)
    /\ UNCHANGED <<sz, arg, third, pt, rect, bnd, num, den, rng, other>>

\* rect.topLeft().toString()
TopLeftToString ==
    /\ op = NoValue
    /\ op' = "topLeft.toString"
    /\ out' = PointToString(topLeft(rect))
    /\ UNCHANGED <<sz, arg, third, pt, rect, bnd, num, den, rng, other>>

\* rect.size().toString()
SizeOfToString ==
    /\ op = NoValue
    /\ op' = "size.toString"
    /\ out' = SizeToString(RectSize(rect))
    /\ UNCHANGED <<sz, arg, third, pt, rect, bnd, num, den, rng, other>>

NextString == RectToString \/ TopLeftToString \/ SizeOfToString

SpecString == InitString /\ [][NextString]_vars

(***************************************************************************)
(* Reading a rendering back: the value of a numeral, and the split of a    *)
(* text into "(" X sep Y ")/" W "x" H.                                     *)
(***************************************************************************)
DigitValue(c) == CHOOSE d \in 0 .. 9 : DigitChars[d + 1] = c

IsDigit(c) == \E d \in 0 .. 9 : DigitChars[d + 1] = c

RECURSIVE NumeralValue(_)
NumeralValue(t) ==
    IF Len(t) = 1 THEN DigitValue(t[1])
    ELSE 10 * NumeralValue(SubSeq(t, 1, Len(t) - 1)) + DigitValue(t[Len(t)])

\* t is the decimal numeral of v >= 0, without leading zeros.
IsNumeral(t, v) ==
    /\ Len(t) >= 1
    /\ \A i \in 1 .. Len(t) : IsDigit(t[i])
    /\ (Len(t) > 1 => t[1] # "0")
    /\ NumeralValue(t) = v

\* t is the signed decimal numeral of v: a minus sign exactly when v < 0.
IsSignedNumeral(t, v) ==
    IF v < 0 THEN Len(t) >= 2 /\ t[1] = "-" /\ IsNumeral(Tail(t), -v)
    ELSE IsNumeral(t, v)

\* text is "(" X sep Y ")/" W "x" H with X, Y, W, H the numerals of r's fields.
RectText(text, r, sep) ==
    LET n == Len(text) IN
    /\ n >= 9
    /\ text[1] = "("
    /\ \E i \in 3 .. n : \E j \in i + 2 .. n : \E k \in j + 3 .. n :
          /\ text[i] = sep /\ text[j] = ")" /\ text[j + 1] = "/" /\ text[k] = "x"
          /\ IsSignedNumeral(SubSeq(text, 2, i - 1), r.x)
          /\ IsSignedNumeral(SubSeq(text, i + 1, j - 1), r.y)
          /\ IsNumeral(SubSeq(text, j + 2, k - 1), r.width)
          /\ k < n /\ IsNumeral(SubSeq(text, k + 1, n), r.height)

(***************************************************************************)
(* C10 as stated: toString() renders "(x,y)/WIDTHxHEIGHT", x and y as      *)
(* signed decimal numbers separated by a comma.                             *)
(***************************************************************************)
C10_CommaFormat == op = "toString" => RectText(out, rect, ",")

(***************************************************************************)
(* C10 as amended: toString() renders "(XxY)/WIDTHxHEIGHT": an opening     *)
(* parenthesis, x, the letter x, y, a closing parenthesis, a slash, width, *)
(* the letter x and height, x and y as signed decimal numbers.             *)
(***************************************************************************)
C10_ToString == op = "toString" => RectText(out, rect, "x")

\* A rectangle with negative x and y has been rendered.
C10_Witness ==
    /\ op = "toString" /\ rect.x < 0 /\ rect.y < 0 /\ rect.width > 0
    /\ out[2] = "-" /\ out[4] = "x" /\ out[5] = "-"
====
